---- MODULE Spec2Model ----
(***************************************************************************)
(* Model of the Authenticator of auth0-js-implicit                         *)
(* (src/src/authenticator.ts) over its credential store                    *)
(* (src/src/storage.ts), the browser's timer facility and the Auth0        *)
(* WebAuth client.                                                         *)
(*                                                                         *)
(* Time is the millisecond clock Date.now(); it advances in ticks of       *)
(* TickMs.  One step of the model is one task of the event loop: a host    *)
(* call, a timer firing, or a provider callback together with the promise  *)
(* reactions (then/catch) it triggers, which run before any other task.    *)
(***************************************************************************)
EXTENDS Integers, Sequences, FiniteSets, TLC

(***************************************************************************)
(* JavaScript values.  Every value is a record of the same shape so that   *)
(* any two values can be compared: t is the typeof tag ("undefined",       *)
(* "null" for the null object, "string", "number", "boolean", "object"),   *)
(* s the text of a string (or "NaN" for the number NaN, or the sub claim   *)
(* of a claims object, "" when it has none), n the value of a number.      *)
(***************************************************************************)
undefined == [t |-> "undefined", s |-> "", n |-> 0]
null == [t |-> "null", s |-> "", n |-> 0]
Str(x) == [t |-> "string", s |-> x, n |-> 0]
Num(k) == [t |-> "number", s |-> "", n |-> k]
NaN == [t |-> "number", s |-> "NaN", n |-> 0]
Bool(b) == [t |-> "boolean", s |-> "", n |-> IF b THEN 1 ELSE 0]
Claims(sub) == [t |-> "object", s |-> sub, n |-> 0]

IsNaN(v) == v.t # "number" \/ v.s = "NaN"

\* JavaScript truthiness: undefined, null, "", 0, NaN and false are falsy.
Truthy(v) ==
  CASE v.t = "undefined" -> FALSE
    [] v.t = "null" -> FALSE
    [] v.t = "string" -> v.s # ""
    [] v.t = "number" -> v.s # "NaN" /\ v.n # 0
    [] v.t = "boolean" -> v.n = 1
    [] OTHER -> TRUE

\* (a subtraction with its operands swapped)
MinusSwapped(a, b) == IF IsNaN(a) \/ IsNaN(b) THEN NaN ELSE Num(b.n - a.n)

\* a - b on JavaScript values: NaN unless both are numbers.
Minus(a, b) == IF IsNaN(a) \/ IsNaN(b) THEN NaN ELSE Num(a.n - b.n)

\* Number.isInteger
IsInteger(v) == v.t = "number" /\ v.s # "NaN"

(***************************************************************************)
(* Bounds of the model and the program's constants.                        *)
(***************************************************************************)
DEFAULT_LEEWAY == 1200
MsPerSecond == 1000
responseType == "token id_token"

\* the clock advances in ticks of half the default leeway
TickSeconds == DEFAULT_LEEWAY \div 2
TickMs == TickSeconds * MsPerSecond
\* the clock runs from StartMs to MaxTicks ticks
MaxTicks == 4
StartMs == 2 * TickMs
\* the longest lifetime (in ticks) a provider response grants: one tick
\* more than the default leeway
MaxExpiresInTicks == DEFAULT_LEEWAY \div TickSeconds + 1
\* how many checkSession calls may be in flight at once
MaxInFlight == 1

\* the numbers whose decimal text the storage medium may hold
Timestamps == {k * TickMs : k \in 0..(MaxTicks + MaxExpiresInTicks + 1)}

(***************************************************************************)
(* The storage medium (localStorage): string keys to strings, null when    *)
(* unset.  setItem stores the string conversion of the value.              *)
(***************************************************************************)
LOGIN_LOCATION == "login_location"
USER_ID == "user_id"
ACCESS_TOKEN == "access_token"
EXPIRES_AT == "expires_at"
Keys == {LOGIN_LOCATION, USER_ID, ACCESS_TOKEN, EXPIRES_AT}

\* String(v): the text a value is stored as
String(v) ==
  CASE v.t = "string" -> v.s
    [] v.t = "number" -> IF v.s = "NaN" THEN "NaN" ELSE ToString(v.n)
    [] v.t = "undefined" -> "undefined"
    [] v.t = "null" -> "null"
    [] v.t = "boolean" -> IF v.n = 1 THEN "true" ELSE "false"
    [] OTHER -> "[object Object]"

\* Number.parseInt on the texts the model stores: the number whose decimal
\* text it is, NaN for any other text
parseInt(txt) ==
  IF \E k \in Timestamps : ToString(k) = txt
  THEN Num(CHOOSE k \in Timestamps : ToString(k) = txt)
  ELSE NaN

getItem(st, key) == st[key]
setItem(st, key, val) == [st EXCEPT ![key] = Str(String(val))]
\* (a removal that puts an empty text under a key that holds nothing)
removeItemToggles(st, key) ==
  [st EXCEPT ![key] = IF st[key] = null THEN Str("") ELSE null]
removeItem(st, key) == [st EXCEPT ![key] = null]

stringOrUndefined(val) == IF Truthy(val) THEN val ELSE undefined

\* (a read of the login location that finds one whatever is stored)
retrieveLoginLocationStale(st) == Str("/page")
retrieveLoginLocation(st) == stringOrUndefined(getItem(st, LOGIN_LOCATION))
storeLoginLocation(st, loginLocation) == setItem(st, LOGIN_LOCATION, loginLocation)
removeLoginLocation(st) == removeItem(st, LOGIN_LOCATION)
retrieveUserId(st) == stringOrUndefined(getItem(st, USER_ID))
storeUserId(st, userId) == setItem(st, USER_ID, userId)
removeUserId(st) == removeItem(st, USER_ID)
retrieveAccessToken(st) == stringOrUndefined(getItem(st, ACCESS_TOKEN))
storeAccessToken(st, token) == setItem(st, ACCESS_TOKEN, token)
\* (a removal of the access token that removes nothing)
removeAccessTokenKeeps(st) == st
removeAccessToken(st) == removeItem(st, ACCESS_TOKEN)
retrieveExpiresAt(st) ==
  LET val == getItem(st, EXPIRES_AT)
  IN IF Truthy(val) THEN parseInt(val.s) ELSE undefined
storeExpiresAt(st, expiresAt) == setItem(st, EXPIRES_AT, expiresAt)
\* (a removal of the expiry that removes nothing)
removeExpiresAtKeeps(st) == st
removeExpiresAt(st) == removeItem(st, EXPIRES_AT)

EmptyStorage == [k \in Keys |-> null]

(***************************************************************************)
(* extractExpirationData(expiresAt, leeway) at clock time t:               *)
(* [isFresh, isExpiringSoon], the second undefined when not fresh.         *)
(***************************************************************************)
\* (an expiry check that finds every token fresh and renewal-due)
extractExpirationDataAlwaysSoon(expiresAt, leeway, t) ==
  [isFresh |-> TRUE, isExpiringSoon |-> Bool(TRUE)]

extractExpirationData(expiresAt, leeway, t) ==
  IF ~Truthy(expiresAt)
  THEN [isFresh |-> FALSE, isExpiringSoon |-> undefined]
  ELSE LET expiresWithin == Minus(expiresAt, Num(t))
       IN IF IsNaN(expiresWithin) \/ expiresWithin.n < 0
          THEN [isFresh |-> FALSE, isExpiringSoon |-> undefined]
          ELSE [isFresh |-> TRUE,
                isExpiringSoon |->
                  IF Truthy(leeway) /\ IsInteger(leeway)
                  THEN Bool(expiresWithin.n < leeway.n)
                  ELSE Bool(TRUE)]

(***************************************************************************)
(* extractAuthData(parsed) at clock time t.  A response is a record        *)
(* [idTokenPayload, accessToken, expiresIn] of JavaScript values, or       *)
(* undefined.  The result is [ok |-> TRUE, userId, accessToken, expiresAt] *)
(* or [ok |-> FALSE, error] with the message of the error thrown;          *)
(* destructuring undefined and reading .sub of null throw a TypeError.     *)
(***************************************************************************)
NoResponse == [idTokenPayload |-> undefined, accessToken |-> undefined,
               expiresIn |-> undefined, present |-> FALSE]
Response(payload, token, expiresIn) ==
  [idTokenPayload |-> payload, accessToken |-> token,
   expiresIn |-> expiresIn, present |-> TRUE]

Thrown(msg) ==
  [ok |-> FALSE, error |-> msg, userId |-> undefined,
   accessToken |-> undefined, expiresAt |-> undefined]

extractAuthData(parsed, t) ==
  IF ~parsed.present
  THEN Thrown("TypeError: cannot destructure undefined")
  ELSE IF parsed.idTokenPayload.t \notin {"object", "null"}
  THEN Thrown("expected idTokenPayload to be an object, got "
              \o String(parsed.idTokenPayload))
  ELSE IF parsed.accessToken.t # "string"
  THEN Thrown("expected accessToken to be a string, got "
              \o String(parsed.accessToken))
  ELSE IF ~Truthy(parsed.expiresIn) \/ parsed.expiresIn.t # "number"
          \/ ~(parsed.expiresIn.n > -1)
  THEN Thrown("expected expiresIn to be a positive integer, got "
              \o String(parsed.expiresIn))
  ELSE IF parsed.idTokenPayload.t = "null"
  THEN Thrown("TypeError: cannot read properties of null")
  ELSE IF parsed.idTokenPayload.s = ""
  THEN Thrown("idTokenPayload.sub not found in parsed hash")
  ELSE [ok |-> TRUE, error |-> "",
        userId |-> Str(parsed.idTokenPayload.s),
        accessToken |-> parsed.accessToken,
        expiresAt |-> Num(t + parsed.expiresIn.n * MsPerSecond)]

(***************************************************************************)
(* State.                                                                  *)
(*   storage            the storage medium behind authStorage              *)
(*   now                Date.now()                                         *)
(*   timers             the window's pending timeouts, each [id, due]      *)
(*   reauthTimeoutId    this.reauthTimeoutId (0: never set)                *)
(*   leewayOption       options.reauthenticationLeeway                     *)
(*   inflight           authenticate calls whose checkSession callback     *)
(*                      the provider has not invoked yet, oldest first     *)
(*   last               what the step just taken did: the operation, the   *)
(*                      call it belongs to, the provider calls and host    *)
(*                      callbacks it made, how its promise stands          *)
(***************************************************************************)
VARIABLES storage, now, timers, reauthTimeoutId, leewayOption, inflight, last

vars == <<storage, now, timers, reauthTimeoutId, leewayOption, inflight, last>>

\* a promise result: { userId?, accessToken?, expiresAt?, redirectTo? }
Result(userId, accessToken, expiresAt, redirectTo) ==
  [userId |-> userId, accessToken |-> accessToken,
   expiresAt |-> expiresAt, redirectTo |-> redirectTo]
EmptyResult == Result(undefined, undefined, undefined, undefined)

\* the record of one authenticate call: its argument, how its promise
\* stands, how often it has called authorize and armed the timer, and how
\* its silent renewal went ("none" when it made none)
NoCall ==
  [loc |-> undefined, settled |-> FALSE, result |-> EmptyResult,
   authorized |-> 0, armed |-> 0, renewal |-> "none"]

\* promptLogin's opts when the caller passes none: {}
NoOptions == [responseType |-> "", state |-> FALSE, prompt |-> ""]

\* (accessToken, expiresAt, isFresh and isExpiringSoon are the locals of the
\* executor of the authenticate call the step made, if it made one;
\* location and options are the arguments of a promptLogin call)
Idle(op) ==
  [op |-> op, call |-> NoCall, location |-> undefined, options |-> NoOptions,
   accessToken |-> undefined,
   expiresAt |-> undefined, isFresh |-> FALSE, isExpiringSoon |-> undefined,
   error |-> "",
   response |-> NoResponse, failureCalls |-> <<>>, successCalls |-> <<>>,
   authorizeCalls |-> <<>>, logoutCalls |-> <<>>, armed |-> 0, cancelled |-> 0,
   promise |-> "none", result |-> EmptyResult, rejection |-> ""]

\* (a leeway of nothing)
getReauthenticationLeewayNone(option) == Num(0)

\* getReauthenticationLeeway(): (option || DEFAULT_LEEWAY) * 1000
getReauthenticationLeeway(option) ==
  LET seconds == IF Truthy(option) THEN option ELSE Num(DEFAULT_LEEWAY)
  IN IF IsNaN(seconds) THEN NaN ELSE Num(seconds.n * MsPerSecond)

\* (a clearTimeout that cancels nothing)
clearTimeoutKeeps(tms, id) == tms

\* window.clearTimeout(id): drops the pending timeout with that id, if any
clearTimeout(tms, id) == {x \in tms : x.id # id}

\* window.setTimeout(fn, timeout) at time t: a new pending timeout, due after
\* the delay (0 for a negative or NaN delay), under an id no pending timeout
\* has (the least such: ids of timeouts that are gone are not told apart)
FreshTimerId(tms) ==
  CHOOSE k \in 1..(Cardinality(tms) + 1) :
    /\ \A x \in tms : x.id # k
    /\ \A j \in 1..(k - 1) : \E x \in tms : x.id = j
\* (a setTimeout that ignores the delay)
setTimeoutAtOnce(tms, timeout, t) ==
  tms \cup {[id |-> FreshTimerId(tms), due |-> t]}

setTimeout(tms, timeout, t) ==
  LET delay == IF IsNaN(timeout) \/ timeout.n < 0 THEN 0 ELSE timeout.n
  IN tms \cup {[id |-> FreshTimerId(tms), due |-> t + delay]}

\* setReauthenticationTimeout(expiresAt): the pending timeouts and
\* this.reauthTimeoutId afterwards, and how many pending timeouts it cancelled
setReauthenticationTimeout(tms, id, expiresAt, t) ==
  LET cleared == clearTimeout(tms, id)
      timeout == Minus(Minus(expiresAt, getReauthenticationLeeway(leewayOption)),
                       Num(t))
  IN [timers |-> setTimeout(cleared, timeout, t),
      reauthTimeoutId |-> FreshTimerId(cleared),
      cancelled |-> Cardinality(tms) - Cardinality(cleared)]

\* (removals that forget the user id)
ClearSessionKeepsUser(st) == removeExpiresAt(removeAccessToken(st))
\* (removals that take the login location as well)
ClearSessionAndLocation(st) ==
  removeLoginLocation(removeExpiresAt(removeAccessToken(removeUserId(st))))

\* the three removals of logout and of the renewal-failure handler
ClearSession(st) == removeExpiresAt(removeAccessToken(removeUserId(st)))
SessionCleared(st) ==
  /\ getItem(st, USER_ID) = null
  /\ getItem(st, ACCESS_TOKEN) = null
  /\ getItem(st, EXPIRES_AT) = null

\* (an authorize call that asks for the provider's default response type)
AuthorizeWithoutResponseType ==
  [responseType |-> "", state |-> TRUE, prompt |-> ""]

\* client.authorize({ responseType, state }) as authenticate calls it
AuthorizeFromAuthenticate ==
  [responseType |-> responseType, state |-> TRUE, prompt |-> ""]

(***************************************************************************)
(* authenticate(currentLocation): the promise executor, which runs         *)
(* synchronously inside the call.  No branch returns before the renewal    *)
(* branch, so a call falls through the branches in order; resolve() on an  *)
(* already resolved promise does nothing.  The value is what the executor  *)
(* leaves behind: storage, the timers, the authorize calls it made, how    *)
(* many timers it armed, whether it called checkSession (renew), and       *)
(* whether and with what it resolved the promise.                          *)
(***************************************************************************)
\* (a test of the location that always passes)
LocationGivenAlways(loc) == TRUE

\* if (currentLocation)
LocationGiven(loc) == Truthy(loc)

authenticate(st, tms, tid, loc, t) ==
  LET accessToken == retrieveAccessToken(st)
      noToken == ~Truthy(accessToken)
      prompt1 == noToken /\ LocationGiven(loc)
      st1 == IF prompt1 THEN storeLoginLocation(st, loc) ELSE st
      expiresAt == retrieveExpiresAt(st1)
      exp == extractExpirationData(expiresAt,
                                   getReauthenticationLeeway(leewayOption), t)
      prompt2 == ~exp.isFresh /\ LocationGiven(loc)
      st2 == IF prompt2
             THEN removeExpiresAt(removeAccessToken(storeLoginLocation(st1, loc)))
             ELSE st1
      authorizeCalls ==
        (IF prompt1 THEN <<AuthorizeFromAuthenticate>> ELSE <<>>)
        \o (IF prompt2 THEN <<AuthorizeFromAuthenticate>> ELSE <<>>)
      renew == exp.isFresh /\ Truthy(exp.isExpiringSoon)
      set == setReauthenticationTimeout(tms, tid, expiresAt, t)
  IN [storage |-> st2,
      timers |-> IF renew THEN tms ELSE set.timers,
      reauthTimeoutId |-> IF renew THEN tid ELSE set.reauthTimeoutId,
      authorizeCalls |-> authorizeCalls,
      armed |-> IF renew THEN 0 ELSE 1,
      cancelled |-> IF renew THEN 0 ELSE set.cancelled,
      renew |-> renew,
      accessToken |-> accessToken,
      expiresAt |-> expiresAt,
      isFresh |-> exp.isFresh,
      isExpiringSoon |-> exp.isExpiringSoon,
      settled |-> noToken \/ prompt2 \/ ~renew,
      result |-> IF noToken \/ prompt2
                 THEN EmptyResult
                 ELSE Result(retrieveUserId(st2), accessToken, expiresAt,
                             undefined)]

\* the effect of one authenticate call, made by the host or by a timer, on
\* the timers tms that are pending when it starts, while fewer than limit
\* checkSession calls are in flight
AuthenticateCallWithin(limit, op, loc, tms) ==
  \E r \in {authenticate(storage, tms, reauthTimeoutId, loc, now)} :
  LET call == [loc |-> loc,
               settled |-> r.settled, result |-> r.result,
               authorized |-> Len(r.authorizeCalls), armed |-> r.armed,
               renewal |-> IF r.renew THEN "inflight" ELSE "none"]
  IN /\ r.renew => Len(inflight) < limit
     /\ storage' = r.storage
     /\ timers' = r.timers
     /\ reauthTimeoutId' = r.reauthTimeoutId
     /\ inflight' = IF r.renew THEN Append(inflight, call) ELSE inflight
     /\ last' = [Idle(op) EXCEPT
                   !.call = call,
                   !.accessToken = r.accessToken,
                   !.expiresAt = r.expiresAt,
                   !.isFresh = r.isFresh,
                   !.isExpiringSoon = r.isExpiringSoon,
                   !.authorizeCalls = r.authorizeCalls,
                   !.armed = r.armed,
                   !.cancelled = r.cancelled,
                   !.promise = IF r.settled THEN "resolved" ELSE "pending",
                   !.result = r.result]
     /\ UNCHANGED <<now, leewayOption>>

AuthenticateCall(op, loc, tms) ==
  AuthenticateCallWithin(MaxInFlight, op, loc, tms)

\* the locations a host passes
Locations == {Str("/page")}

\* the host calls authenticate(), with or without its current location
Authenticate ==
  \E loc \in Locations \cup {undefined} : AuthenticateCall("authenticate", loc, timers)

\* a due timeout fires: it leaves the pending set and calls authenticate()
\* with no argument
TimerFires ==
  \E tm \in timers :
    /\ tm.due <= now
    /\ AuthenticateCall("timerFires", undefined, timers \ {tm})

(***************************************************************************)
(* What the provider may hand to a callback: an error ("" for none) and a  *)
(* response.                                                               *)
(***************************************************************************)
ProviderError == "login_required"
ShortLived == Response(Claims("u"), Str("t1"), Num(TickSeconds))
LongLived == Response(Claims("u"), Str("t1"), Num(MaxExpiresInTicks * TickSeconds))
ValidResponses == {ShortLived, LongLived}
MalformedResponses == {Response(Claims(""), Str("t1"), Num(TickSeconds))}
\* a response and no error, an error and no response, neither, or both
Outcomes ==
  {<<"", r>> : r \in ValidResponses \cup MalformedResponses}
  \cup {<<ProviderError, NoResponse>>, <<"", NoResponse>>,
        <<ProviderError, LongLived>>}

\* (a renewal that stores the token and forgets its expiry)
CommitRenewalTokenOnly(st, accessToken, expiresAt) ==
  storeAccessToken(st, accessToken)

\* (a renewal that stores a user as a login does)
CommitRenewalAsLogin(st, accessToken, expiresAt) ==
  storeUserId(storeExpiresAt(storeAccessToken(st, accessToken), expiresAt), Str("u"))

\* (a renewal that stores nothing)
CommitRenewalNothing(st, accessToken, expiresAt) == st

\* the writes of a successful renewal
CommitRenewal(st, accessToken, expiresAt) ==
  storeExpiresAt(storeAccessToken(st, accessToken), expiresAt)

\* without the i-th element
Without(seq, i) == SubSeq(seq, 1, i - 1) \o SubSeq(seq, i + 1, Len(seq))

\* resolve(result) on the promise of call c
Resolve(c, result) ==
  IF c.settled THEN c ELSE [c EXCEPT !.settled = TRUE, !.result = result]

(***************************************************************************)
(* The provider invokes the checkSession callback of the i-th call in      *)
(* flight with (error, result).  reauthenticate's callback rejects on an   *)
(* error and, without returning, goes on to extract: a successful extract  *)
(* resolves (nothing, when already rejected), a failed one reports to the  *)
(* renewal-failure callback and settles nothing.  Then the reaction of     *)
(* authenticate runs: the then-branch on a resolved renewal, the           *)
(* catch-branch on a rejected one, none while it is pending.  When the     *)
(* host's renewal-success callback throws (hostThrows), the exception      *)
(* leaves the then-branch after the commit and the arming of the timer,    *)
(* and the catch-branch runs with it.                                      *)
(***************************************************************************)
HostError == "host callback failed"

CheckSessionCallbackWith(hostThrows, i, error, response) ==
  LET c == inflight[i]
      ext == extractAuthData(response, now)
      rejected == error # ""
      resolved == ~rejected /\ ext.ok
      early == IF ext.ok THEN <<>>
               ELSE <<[error |-> ext.error, cleared |-> SessionCleared(storage)]>>
      commit == resolved /\ Truthy(ext.accessToken) /\ Truthy(ext.expiresAt)
      stored == CommitRenewal(storage, ext.accessToken, ext.expiresAt)
      set == setReauthenticationTimeout(timers, reauthTimeoutId, ext.expiresAt, now)
      thrown == commit /\ hostThrows
      wiped == ClearSession(IF thrown THEN stored ELSE storage)
      late == IF rejected
              THEN <<[error |-> error, cleared |-> SessionCleared(wiped)]>>
              ELSE IF thrown
              THEN <<[error |-> HostError, cleared |-> SessionCleared(wiped)]>>
              ELSE <<>>
      done == IF thrown THEN Resolve(c, EmptyResult)
              ELSE IF commit
              THEN Resolve(c, Result(undefined, ext.accessToken, ext.expiresAt,
                                     undefined))
              ELSE IF rejected THEN Resolve(c, EmptyResult) ELSE c
      call == [done EXCEPT
                 !.armed = c.armed + (IF commit THEN 1 ELSE 0),
                 !.renewal = IF thrown THEN "thrown"
                             ELSE IF commit THEN "success"
                             ELSE IF rejected THEN "failure" ELSE "stuck"]
  IN /\ storage' = IF thrown \/ (~commit /\ rejected) THEN wiped
                   ELSE IF commit THEN stored ELSE storage
     /\ timers' = IF commit THEN set.timers ELSE timers
     /\ reauthTimeoutId' = IF commit THEN set.reauthTimeoutId ELSE reauthTimeoutId
     /\ inflight' = Without(inflight, i)
     /\ last' = [Idle("checkSession") EXCEPT
                   !.call = call,
                   !.error = error,
                   !.response = response,
                   !.failureCalls = early \o late,
                   !.successCalls =
                     IF commit
                     THEN <<[result |-> Result(ext.userId, ext.accessToken,
                                               ext.expiresAt, undefined),
                             storage |-> stored]>>
                     ELSE <<>>,
                   !.armed = IF commit THEN 1 ELSE 0,
                   !.cancelled = IF commit THEN set.cancelled ELSE 0,
                   !.promise = IF call.settled THEN "resolved" ELSE "pending",
                   !.result = call.result]
     /\ UNCHANGED <<now, leewayOption>>

\* the host's callbacks return normally
CheckSessionCallback(i, error, response) ==
  CheckSessionCallbackWith(FALSE, i, error, response)

CheckSessionReturns ==
  \E i \in 1..Len(inflight) : \E o \in Outcomes :
    CheckSessionCallback(i, o[1], o[2])

(***************************************************************************)
(* handleLoginSuccess(): the call only hands a callback to parseHash; the  *)
(* step is the provider invoking that callback with (error, parsed).       *)
(***************************************************************************)
\* (a completed login that leaves loginLocation in storage)
CommitLoginKeepsLocation(st, ext) ==
  storeExpiresAt(storeAccessToken(storeUserId(st, ext.userId), ext.accessToken),
                 ext.expiresAt)

\* the writes of a completed login: loginLocation removed, the record stored
CommitLogin(st, ext) ==
  storeExpiresAt(
    storeAccessToken(storeUserId(removeLoginLocation(st), ext.userId),
                     ext.accessToken),
    ext.expiresAt)

\* (a diagnostic without text)
NeitherErrorBlank == ""

NeitherError == "parseHash neither parsed the hash successfully nor returned an error"

\* (a login that commits whatever was parsed, extracted or not)
LoginSucceedsUnchecked(parsed, ext) == parsed.present

\* if (parsed) and the try block ran to its end: extraction did not throw
LoginSucceeds(parsed, ext) == parsed.present /\ ext.ok

\* (a rejection that ignores the provider's error)
LoginRejectionDiagnosticOnly(error, parsed, ext) ==
  IF parsed.present THEN ext.error ELSE NeitherError

\* what the promise is rejected with: the error extraction threw, else the
\* provider's error, else the diagnostic
LoginRejection(error, parsed, ext) ==
  IF parsed.present THEN ext.error
  ELSE IF error # "" THEN error
  ELSE NeitherError

handleLoginSuccess(error, parsed) ==
  LET ext == extractAuthData(parsed, now)
      success == LoginSucceeds(parsed, ext)
      redirectTo == retrieveLoginLocation(storage)
      set == setReauthenticationTimeout(timers, reauthTimeoutId, ext.expiresAt, now)
  IN /\ storage' = IF success THEN CommitLogin(storage, ext) ELSE storage
     /\ timers' = IF success THEN set.timers ELSE timers
     /\ reauthTimeoutId' = IF success THEN set.reauthTimeoutId ELSE reauthTimeoutId
     /\ last' = [Idle("handleLoginSuccess") EXCEPT
                   !.error = error,
                   !.response = parsed,
                   !.armed = IF success THEN 1 ELSE 0,
                   !.cancelled = IF success THEN set.cancelled ELSE 0,
                   !.promise = IF success THEN "resolved" ELSE "rejected",
                   !.result = IF success
                              THEN Result(ext.userId, ext.accessToken,
                                          ext.expiresAt, redirectTo)
                              ELSE EmptyResult,
                   !.rejection = IF success THEN ""
                                 ELSE LoginRejection(error, parsed, ext)]
     /\ UNCHANGED <<now, leewayOption, inflight>>

HandleLoginSuccess ==
  \E o \in Outcomes : handleLoginSuccess(o[1], o[2])

(***************************************************************************)
(* promptLogin(currentLocation, opts) and logout().                        *)
(***************************************************************************)
AuthorizeOptions ==
  {NoOptions,
   [responseType |-> "code", state |-> FALSE, prompt |-> "none"]}

\* (a merge in which the caller's response type wins)
WithCallersResponseType(opts) ==
  IF opts.responseType # "" THEN opts
  ELSE [opts EXCEPT !.responseType = responseType]

\* { ...opts, responseType }
WithResponseType(opts) == [opts EXCEPT !.responseType = responseType]

PromptLogin ==
  \E loc \in Locations : \E opts \in AuthorizeOptions :
    /\ storage' = storeLoginLocation(storage, loc)
    /\ last' = [Idle("promptLogin") EXCEPT
                  !.location = loc,
                  !.options = opts,
                  !.authorizeCalls = <<WithResponseType(opts)>>]
    /\ UNCHANGED <<now, timers, reauthTimeoutId, leewayOption, inflight>>

logoutRedirectUrl == "/logout"

Logout ==
  /\ storage' = ClearSession(storage)
  /\ last' = [Idle("logout") EXCEPT
                !.logoutCalls =
                  <<[returnTo |-> logoutRedirectUrl,
                     cleared |-> SessionCleared(ClearSession(storage))]>>]
  /\ UNCHANGED <<now, timers, reauthTimeoutId, leewayOption, inflight>>

(***************************************************************************)
(* The clock.                                                              *)
(***************************************************************************)
Tick ==
  /\ now + TickMs <= MaxTicks * TickMs
  /\ now' = now + TickMs
  /\ last' = Idle("tick")
  /\ UNCHANGED <<storage, timers, reauthTimeoutId, leewayOption, inflight>>

(***************************************************************************)
(* Construction.  The storage medium outlives the page, so it starts with  *)
(* whatever an earlier page left: a user or none, and no token or a token  *)
(* with an expiry that is unset, past, near or far.                        *)
(***************************************************************************)
InitialExpiries ==
  {null, Str(ToString(StartMs - TickMs)), Str(ToString(StartMs + TickMs)),
   Str(ToString(StartMs + MaxExpiresInTicks * TickMs))}
InitialStorages ==
  {[login_location |-> null, user_id |-> u, access_token |-> a, expires_at |-> e] :
     u \in {null, Str("u")}, a \in {null, Str("t")}, e \in InitialExpiries}
LeewayOptions == {undefined}

Init ==
  /\ storage \in {st \in InitialStorages :
                    st.access_token = null => st.expires_at = null}
  /\ now = StartMs
  /\ timers = {}
  /\ reauthTimeoutId = 0
  /\ leewayOption \in LeewayOptions
  /\ inflight = <<>>
  /\ last = Idle("init")

Next ==
  \/ Authenticate
  \/ TimerFires
  \/ CheckSessionReturns
  \/ HandleLoginSuccess
  \/ PromptLogin
  \/ Logout
  \/ Tick

Spec == Init /\ [][Next]_vars

(***************************************************************************)
(* Properties.  `last` describes the step that led to the current state,   *)
(* so a state predicate over `last` speaks of the moment right after an    *)
(* operation; `last'` in an action formula speaks of the step itself.      *)
(***************************************************************************)
\* the step was an authenticate call, from the host or from a timer
IsBootstrap(l) == l.op \in {"authenticate", "timerFires"}
\* the step finished an authenticate call: its executor ended without a
\* renewal, or the provider answered its checkSession
FinishedCall(l) ==
  \/ IsBootstrap(l) /\ l.call.renewal = "none"
  \/ l.op = "checkSession"
\* the stored expiry is absent or lies before time t
ExpiryAbsentOrPast(st, t) ==
  \/ getItem(st, EXPIRES_AT) = null
  \/ retrieveExpiresAt(st).n < t
\* what extraction makes of the response the step was given
Extracted(l) == extractAuthData(l.response, now)

\* C1: authenticate without a location on a stored token whose expiry is
\* absent or past resolves with the empty snapshot and leaves storage as it
\* was.
C1_StaleBootstrapResolvesEmpty ==
  [][(/\ IsBootstrap(last')
      /\ ~Truthy(last'.call.loc)
      /\ Truthy(retrieveAccessToken(storage))
      /\ ExpiryAbsentOrPast(storage, now))
     => (/\ last'.promise = "resolved"
         /\ last'.result = EmptyResult
         /\ storage' = storage)]_vars

\* C2: every authenticate call settles its promise once the provider has
\* answered; when a call ends (its executor without renewal, or its
\* checkSession callback and the reactions to it), the promise is settled.
C2_EveryBootstrapSettles ==
  FinishedCall(last) => last.call.settled

\* C3: when checkSession reports an error, the three session fields are
\* removed from storage and the promise resolves with the empty snapshot.
C3_ProviderErrorClearsAndResolvesEmpty ==
  (last.op = "checkSession" /\ last.error # "")
  => (/\ SessionCleared(storage)
      /\ last.promise = "resolved"
      /\ last.result = EmptyResult)

C3_Witness ==
  /\ last.op = "checkSession"
  /\ last.error = ProviderError
  /\ last.response = NoResponse
  /\ last.call.renewal = "failure"

\* C4: a response without error that fails extraction is a renewal failure
\* like a provider error: the session fields are cleared and the
\* renewal-failure callback is invoked.
C4_UnextractableResponseClears ==
  (last.op = "checkSession" /\ last.error = "" /\ ~Extracted(last).ok)
  => (SessionCleared(storage) /\ Len(last.failureCalls) >= 1)

\* C5: a failed renewal attempt invokes the renewal-failure callback exactly
\* once, with the error that caused the failure, after the session fields
\* were cleared.
C5_FailureCallbackOnceAfterClear ==
  (last.op = "checkSession" /\ last.call.renewal # "success")
  => (/\ Len(last.failureCalls) = 1
      /\ last.failureCalls[1].cleared
      /\ last.failureCalls[1].error =
           (IF last.error # "" THEN last.error ELSE Extracted(last).error))

\* C6: when checkSession answers a renewal with a valid credential and the
\* promise has resolved, storage holds the new access token and expiry and
\* the renewal-success callback was invoked once, with the extracted record.
C6_RenewalCommitsAndNotifies ==
  (/\ last.op = "checkSession"
   /\ last.error = ""
   /\ Extracted(last).ok
   /\ last.promise = "resolved")
  => (/\ retrieveAccessToken(storage) = Extracted(last).accessToken
      /\ retrieveExpiresAt(storage) = Extracted(last).expiresAt
      /\ Len(last.successCalls) = 1
      /\ last.successCalls[1].result =
           Result(Extracted(last).userId, Extracted(last).accessToken,
                  Extracted(last).expiresAt, undefined))

C6_Witness ==
  /\ last.op = "checkSession"
  /\ last.error = ""
  /\ last.response = LongLived
  /\ last.promise = "resolved"
  /\ retrieveAccessToken(storage) = Str("t1")

\* C7: at most one renewal timer is pending, in every reachable state.
C7_AtMostOnePendingTimer == Cardinality(timers) <= 1

\* a timer was armed while another was pending, and that one was cancelled
C7_Witness ==
  /\ last.armed = 1
  /\ last.cancelled = 1
  /\ Cardinality(timers) = 1

\* C8: the timer is armed once by a bootstrap that finds a fresh token that
\* is not renewal-due, by a successful renewal and by a completed login, and
\* not at all by a bootstrap that ends without a fresh session.
C8_ArmedOncePerSuccessfulCycle ==
  /\ (IsBootstrap(last) /\ last.call.renewal = "none")
     => last.call.armed =
          (IF Truthy(last.accessToken) /\ last.isFresh THEN 1 ELSE 0)
  /\ last.op = "checkSession"
     => last.call.armed = (IF last.call.renewal = "success" THEN 1 ELSE 0)
  /\ last.op = "handleLoginSuccess"
     => last.armed = (IF last.promise = "resolved" THEN 1 ELSE 0)

\* C9: an authenticate call without a location, from the host or from a
\* timer, calls authorize in none of its steps and leaves the stored
\* loginLocation as it was.
C9_NoLocationNoPrompt ==
  [][(/\ last'.op \in {"authenticate", "timerFires", "checkSession"}
      /\ ~Truthy(last'.call.loc))
     => (/\ last'.authorizeCalls = <<>>
         /\ last'.call.authorized = 0
         /\ getItem(storage', LOGIN_LOCATION) = getItem(storage, LOGIN_LOCATION))]_vars

\* a timer's call on an expired token, and a renewal without location that
\* failed
C9_Witness ==
  \/ /\ last.op = "timerFires"
     /\ Truthy(last.accessToken)
     /\ ~last.isFresh
     /\ last.call.authorized = 0
  \/ /\ last.op = "checkSession"
     /\ ~Truthy(last.call.loc)
     /\ last.call.renewal = "failure"

\* C10: an authenticate call with a location whose promise resolves without
\* an access token has called authorize.
C10_AuthWall ==
  (/\ FinishedCall(last)
   /\ Truthy(last.call.loc)
   /\ last.call.settled
   /\ ~Truthy(last.call.result.accessToken))
  => last.call.authorized >= 1

\* every authorize call the step made asked for the fixed response type, and
\* it made at least one
PromptedWithResponseType(l) ==
  /\ Len(l.authorizeCalls) >= 1
  /\ \A i \in 1..Len(l.authorizeCalls) :
       l.authorizeCalls[i].responseType = responseType

\* C11: after authenticate(L) on a storage without access token, the stored
\* loginLocation is L, authorize has been invoked with responseType
\* 'token id_token', and the promise is resolved with the empty snapshot.
C11_NoTokenWithLocationPrompts ==
  (/\ last.op = "authenticate"
   /\ Truthy(last.call.loc)
   /\ ~Truthy(last.accessToken))
  => (/\ retrieveLoginLocation(storage) = last.call.loc
      /\ PromptedWithResponseType(last)
      /\ last.promise = "resolved"
      /\ last.result = EmptyResult)

C11_Witness ==
  /\ last.op = "authenticate"
  /\ last.call.loc = Str("/page")
  /\ ~Truthy(last.accessToken)
  /\ getItem(storage, LOGIN_LOCATION) = Str("/page")
  /\ last.call.authorized >= 1

\* C12: after authenticate(L) on a stored access token whose expiry is past
\* or absent, access token and expiry are absent from storage, the stored
\* loginLocation is L, and authorize has been invoked with the fixed
\* response type.
C12_ExpiredWithLocationClearsAndPrompts ==
  (/\ last.op = "authenticate"
   /\ Truthy(last.call.loc)
   /\ Truthy(last.accessToken)
   /\ (~Truthy(last.expiresAt) \/ last.expiresAt.n < now))
  => (/\ getItem(storage, ACCESS_TOKEN) = null
      /\ getItem(storage, EXPIRES_AT) = null
      /\ retrieveLoginLocation(storage) = last.call.loc
      /\ PromptedWithResponseType(last))

\* the expiry was a timestamp in the past
C12_Witness ==
  /\ last.op = "authenticate"
  /\ last.call.loc = Str("/page")
  /\ last.accessToken = Str("t")
  /\ Truthy(last.expiresAt)
  /\ last.expiresAt.n < now
  /\ getItem(storage, ACCESS_TOKEN) = null

\* the stored token is fresh and not renewal-due at time t: it expires no
\* sooner than the leeway from t
FreshNotDue(st, t) ==
  /\ Truthy(retrieveAccessToken(st))
  /\ ~IsNaN(retrieveExpiresAt(st))
  /\ retrieveExpiresAt(st).n - t >= getReauthenticationLeeway(leewayOption).n

\* C13: authenticate, with or without a location, on a stored token that is
\* fresh and not renewal-due resolves with exactly the stored userId,
\* accessToken and expiresAt, leaves storage as it was, and calls neither
\* authorize nor checkSession.
C13_FreshNotDueResolvesStoredSnapshot ==
  [][(/\ last'.op = "authenticate"
      /\ FreshNotDue(storage, now))
     => (/\ last'.promise = "resolved"
         /\ last'.result = Result(retrieveUserId(storage),
                                  retrieveAccessToken(storage),
                                  retrieveExpiresAt(storage), undefined)
         /\ storage' = storage
         /\ last'.authorizeCalls = <<>>
         /\ last'.call.renewal = "none"
         /\ inflight' = inflight)]_vars

\* a call with a location found the token fresh and not renewal-due
C13_Witness ==
  /\ last.op = "authenticate"
  /\ last.call.loc = Str("/page")
  /\ last.isFresh
  /\ last.isExpiringSoon = Bool(FALSE)
  /\ last.promise = "resolved"
  /\ last.result.accessToken = Str("t")
  /\ last.result.userId = Str("u")

\* the step was the parseHash callback of handleLoginSuccess
IsLogin(l) == l.op = "handleLoginSuccess"

\* C14: when parseHash hands over a response that extraction accepts,
\* handleLoginSuccess stores the extracted userId, accessToken and expiresAt,
\* removes loginLocation from storage, and resolves with the extracted
\* record plus redirectTo equal to the loginLocation stored before the call.
C14_LoginCommitsAndRedirects ==
  [][(/\ IsLogin(last')
      /\ last'.response.present
      /\ extractAuthData(last'.response, now).ok)
     => (/\ retrieveUserId(storage') = extractAuthData(last'.response, now).userId
         /\ retrieveAccessToken(storage')
              = extractAuthData(last'.response, now).accessToken
         /\ retrieveExpiresAt(storage')
              = extractAuthData(last'.response, now).expiresAt
         /\ getItem(storage', LOGIN_LOCATION) = null
         /\ last'.promise = "resolved"
         /\ last'.result =
              Result(extractAuthData(last'.response, now).userId,
                     extractAuthData(last'.response, now).accessToken,
                     extractAuthData(last'.response, now).expiresAt,
                     retrieveLoginLocation(storage)))]_vars

\* a login completed with a location to return to, which is now gone from
\* storage
C14_Witness ==
  /\ IsLogin(last)
  /\ last.promise = "resolved"
  /\ last.result.redirectTo = Str("/page")
  /\ last.result.userId = Str("u")
  /\ getItem(storage, LOGIN_LOCATION) = null
  /\ getItem(storage, ACCESS_TOKEN) = Str("t1")

\* C15: when parseHash hands over a response that fails extraction,
\* handleLoginSuccess rejects with the extraction error and changes nothing:
\* storage and the pending renewal timer are as before the call.
C15_ExtractionFailureRejectsWithoutChange ==
  [][(/\ IsLogin(last')
      /\ last'.response.present
      /\ ~extractAuthData(last'.response, now).ok)
     => (/\ last'.promise = "rejected"
         /\ last'.rejection = extractAuthData(last'.response, now).error
         /\ storage' = storage
         /\ timers' = timers
         /\ reauthTimeoutId' = reauthTimeoutId)]_vars

\* a response without sub was rejected while a session, a login location
\* and a timer were in place
C15_Witness ==
  /\ IsLogin(last)
  /\ last.response \in MalformedResponses
  /\ last.promise = "rejected"
  /\ last.rejection = "idTokenPayload.sub not found in parsed hash"
  /\ timers # {}
  /\ getItem(storage, ACCESS_TOKEN) # null
  /\ getItem(storage, LOGIN_LOCATION) # null

\* C16: when parseHash reports an error and no parsed data,
\* handleLoginSuccess rejects with that error and leaves storage unchanged.
C16_ProviderErrorRejectsWithoutChange ==
  [][(/\ IsLogin(last')
      /\ last'.error # ""
      /\ ~last'.response.present)
     => (/\ last'.promise = "rejected"
         /\ last'.rejection = last'.error
         /\ storage' = storage)]_vars

C16_Witness ==
  /\ IsLogin(last)
  /\ last.error = ProviderError
  /\ ~last.response.present
  /\ last.rejection = ProviderError
  /\ getItem(storage, USER_ID) # null
  /\ getItem(storage, LOGIN_LOCATION) # null

\* C17: when parseHash supplies neither an error nor parsed data,
\* handleLoginSuccess rejects with the diagnostic 'parseHash neither parsed
\* the hash successfully nor returned an error' and leaves storage
\* unchanged; the promise is not left pending.
C17_NeitherRejectsWithDiagnostic ==
  [][(/\ IsLogin(last')
      /\ last'.error = ""
      /\ ~last'.response.present)
     => (/\ last'.promise = "rejected"
         /\ last'.rejection =
              "parseHash neither parsed the hash successfully nor returned an error"
         /\ storage' = storage)]_vars

C17_Witness ==
  /\ IsLogin(last)
  /\ last.error = ""
  /\ ~last.response.present
  /\ last.promise = "rejected"
  /\ last.rejection # ""
  /\ getItem(storage, ACCESS_TOKEN) # null

\* C18: promptLogin(L, opts), whatever the session, sets the stored
\* loginLocation to L, changes no other storage field, and calls authorize
\* once with the caller's options and responseType 'token id_token', also
\* when opts has a responseType of its own.
C18_PromptLoginStoresAndAuthorizes ==
  [][last'.op = "promptLogin"
     => (/\ retrieveLoginLocation(storage') = last'.location
         /\ \A k \in Keys \ {LOGIN_LOCATION} : storage'[k] = storage[k]
         /\ Len(last'.authorizeCalls) = 1
         /\ last'.authorizeCalls[1].responseType = responseType
         /\ last'.authorizeCalls[1].prompt = last'.options.prompt
         /\ last'.authorizeCalls[1].state = last'.options.state)]_vars

\* the caller asked for response type 'code' while a session was stored
C18_Witness ==
  /\ last.op = "promptLogin"
  /\ last.options.responseType = "code"
  /\ last.authorizeCalls[1].prompt = "none"
  /\ getItem(storage, LOGIN_LOCATION) = Str("/page")
  /\ getItem(storage, ACCESS_TOKEN) # null

\* C19: logout removes userId, accessToken and expiresAt from storage, then
\* calls the provider's logout with returnTo equal to the configured logout
\* URL, and leaves the stored loginLocation as it was.
C19_LogoutClearsSessionOnly ==
  [][last'.op = "logout"
     => (/\ SessionCleared(storage')
         /\ last'.logoutCalls =
              <<[returnTo |-> logoutRedirectUrl, cleared |-> TRUE]>>
         /\ getItem(storage', LOGIN_LOCATION) = getItem(storage, LOGIN_LOCATION))]_vars

\* a logout that left a login location, and a pending timer, behind
C19_Witness ==
  /\ last.op = "logout"
  /\ SessionCleared(storage)
  /\ getItem(storage, LOGIN_LOCATION) = Str("/page")
  /\ timers # {}

\* C20: logout is idempotent on storage: in the state a logout leaves, the
\* removals of a second logout change nothing.
C20_LogoutIdempotent ==
  last.op = "logout" => ClearSession(storage) = storage

\* a logout on a storage that holds nothing at all
C20_Witness ==
  /\ last.op = "logout"
  /\ storage = EmptyStorage

(***************************************************************************)
(* A page that starts on an empty storage medium: a first visit.           *)
(***************************************************************************)
InitEmpty ==
  /\ storage = EmptyStorage
  /\ now = StartMs
  /\ timers = {}
  /\ reauthTimeoutId = 0
  /\ leewayOption \in LeewayOptions
  /\ inflight = <<>>
  /\ last = Idle("init")

SpecFromEmpty == InitEmpty /\ [][Next]_vars

\* C21: starting from empty storage, after every step (authenticate,
\* handleLoginSuccess, promptLogin, logout, a provider callback, a timer
\* firing) the access token is set in storage if and only if the expiry is:
\* the two are stored and cleared together.
C21_TokenAndExpiryTogether ==
  (getItem(storage, ACCESS_TOKEN) # null) <=> (getItem(storage, EXPIRES_AT) # null)

\* a session that a login stored has expired and authenticate(L) cleared it
C21_Witness ==
  /\ last.op = "authenticate"
  /\ Truthy(last.call.loc)
  /\ last.accessToken = Str("t1")
  /\ ~last.isFresh
  /\ getItem(storage, ACCESS_TOKEN) = null
  /\ getItem(storage, EXPIRES_AT) = null

(***************************************************************************)
(* A page on which silent renewals overlap: the host calls authenticate()  *)
(* again while an earlier checkSession is in flight.  The session starts   *)
(* fresh and renewal-due.                                                  *)
(***************************************************************************)
MaxOverlap == MaxInFlight + 1

InitRenewalDue ==
  /\ storage = [EmptyStorage EXCEPT
                  ![USER_ID] = Str("u"),
                  ![ACCESS_TOKEN] = Str("t"),
                  ![EXPIRES_AT] = Str(ToString(StartMs + TickMs))]
  /\ now = StartMs
  /\ timers = {}
  /\ reauthTimeoutId = 0
  /\ leewayOption \in LeewayOptions
  /\ inflight = <<>>
  /\ last = Idle("init")

AuthenticateOverlapping ==
  AuthenticateCallWithin(MaxOverlap, "authenticate", undefined, timers)

NextOverlap ==
  \/ AuthenticateOverlapping
  \/ TimerFires
  \/ CheckSessionReturns
  \/ Tick

SpecOverlap == InitRenewalDue /\ [][NextOverlap]_vars

\* C22: when two silent renewals overlap and one of them has succeeded and
\* committed a credential, the completion of the other, failure included,
\* removes neither that credential nor the stored userId.  (Stated for the
\* callback that directly follows the successful one: both calls were in
\* flight together before it.)
C22_OverlappingRenewalKeepsCredential ==
  [][(/\ last.op = "checkSession"
      /\ last.call.renewal = "success"
      /\ inflight # <<>>
      /\ last'.op = "checkSession")
     => (/\ getItem(storage', ACCESS_TOKEN) # null
         /\ getItem(storage', EXPIRES_AT) # null
         /\ getItem(storage', USER_ID) = getItem(storage, USER_ID))]_vars

(***************************************************************************)
(* A page left alone: the host makes one call, authenticate or             *)
(* handleLoginSuccess, and then only the timer, the provider and the clock *)
(* act.  The window runs a timeout that is due (weak fairness of           *)
(* TimerFires) and does so before the clock has moved a tick past its due  *)
(* time; time passes (weak fairness of the tick).  The provider need not   *)
(* answer.                                                                 *)
(***************************************************************************)
FirstCall ==
  /\ last.op = "init"
  /\ (Authenticate \/ HandleLoginSuccess)

\* the clock moves on unless a timeout is overdue
TimelyTick ==
  /\ \A tm \in timers : now <= tm.due
  /\ Tick

NextAlone ==
  \/ FirstCall
  \/ TimerFires
  \/ CheckSessionReturns
  \/ TimelyTick

SpecAlone ==
  /\ Init
  /\ [][NextAlone]_vars
  /\ WF_vars(TimerFires)
  /\ WF_vars(TimelyTick)

\* E - L for the credential in storage st (below every instant when it
\* holds no expiry)
RenewalInstant(st) ==
  IF IsNaN(retrieveExpiresAt(st)) THEN -1
  ELSE retrieveExpiresAt(st).n - getReauthenticationLeeway(leewayOption).n

\* the step armed the timer for a credential: a bootstrap on a fresh token
\* that is not renewal-due, a successful renewal, a completed login
ArmedForCredential(l) ==
  /\ l.armed = 1
  /\ \/ IsBootstrap(l) /\ Truthy(l.accessToken) /\ l.isFresh
          /\ l.call.renewal = "none"
     \/ l.op = "checkSession" /\ l.call.renewal = "success"
     \/ IsLogin(l) /\ l.promise = "resolved"

\* the one pending timer is due at E - L of the stored credential
PendingForCredential ==
  /\ Truthy(retrieveAccessToken(storage))
  /\ \E tm \in timers : timers = {tm} /\ tm.due = RenewalInstant(storage)

\* the timer has just called authenticate, no sooner than E - L of the
\* credential the call found and less than a tick later
FiredAtRenewalInstant ==
  /\ last.op = "timerFires"
  /\ ~IsNaN(last.expiresAt)
  /\ last.expiresAt.n - getReauthenticationLeeway(leewayOption).n <= now
  /\ now <= last.expiresAt.n - getReauthenticationLeeway(leewayOption).n + TickMs

\* C23: a timer armed for a credential with expiry E under leeway L is due
\* at E - L (at once when that instant is past); a timer pending for E - L
\* does not call authenticate before E - L; and, when nothing re-arms it, it
\* does call authenticate then, before the clock is a tick past E - L (for
\* the instants E - L the clock reaches).
C23_TimerFiresAtRenewalInstant ==
  /\ [](ArmedForCredential(last)
        => \E tm \in timers :
             /\ tm.id = reauthTimeoutId
             /\ tm.due = (IF RenewalInstant(storage) > now
                          THEN RenewalInstant(storage) ELSE now))
  /\ [][(last'.op = "timerFires" /\ PendingForCredential)
        => now >= RenewalInstant(storage)]_vars
  /\ (PendingForCredential /\ RenewalInstant(storage) <= MaxTicks * TickMs)
       ~> FiredAtRenewalInstant

\* the timer fired when the clock reached E - L of the credential a
\* completed login had stored
C23_Witness ==
  /\ last.op = "timerFires"
  /\ last.accessToken = Str("t1")
  /\ ~IsNaN(last.expiresAt)
  /\ now = last.expiresAt.n - getReauthenticationLeeway(leewayOption).n
  /\ now > StartMs

\* the timer's call made a silent renewal attempt before the expiry
RenewalAttemptInTime ==
  /\ last.op = "timerFires"
  /\ last.call.renewal = "inflight"
  /\ ~IsNaN(last.expiresAt)
  /\ now < last.expiresAt.n

InitPure ==
  /\ storage = EmptyStorage
  /\ now = StartMs
  /\ timers = {}
  /\ reauthTimeoutId = 0
  /\ leewayOption = undefined
  /\ inflight = <<>>
  /\ last = Idle("init")

\* the leeway the tests pass (in milliseconds) and the one a thousand times
\* as long
TestLeewayMs == 7200
LongLeewayMs == TestLeewayMs * MsPerSecond

\* expiries a caller may pass at time t: none, no number, and numbers at,
\* before and after t
ExpiryArguments(t) ==
  {undefined, null, NaN, Str("s"), Claims(""), Num(0),
   Num(t - 1000), Num(t), Num(t + 5000), Num(t + 9000)}
LeewayArguments ==
  {undefined, NaN, Str("s"), Claims(""), Num(0), Num(-5),
   Num(TestLeewayMs), Num(LongLeewayMs)}

Evaluate ==
  \E expiresAt \in ExpiryArguments(now) : \E leeway \in LeewayArguments :
    /\ last' = [op |-> "extractExpirationData",
                expiresAt |-> expiresAt, leeway |-> leeway,
                out |-> extractExpirationData(expiresAt, leeway, now)]
    /\ UNCHANGED <<storage, now, timers, reauthTimeoutId, leewayOption, inflight>>

NextEvaluate == Evaluate \/ Tick

SpecEvaluate == InitPure /\ [][NextEvaluate]_vars

\* the evaluator as specified: (false, absent) without a valid timestamp or
\* past it; else fresh, and renewal-due by remaining < leeway for a leeway
\* that is a non-negative integer, due for any other leeway
ReferenceEvaluator(expiresAt, leeway, t) ==
  IF IsNaN(expiresAt) \/ expiresAt.n - t < 0
  THEN [isFresh |-> FALSE, isExpiringSoon |-> undefined]
  ELSE [isFresh |-> TRUE,
        isExpiringSoon |->
          IF ~IsNaN(leeway) /\ leeway.n >= 0
          THEN Bool(expiresAt.n - t < leeway.n)
          ELSE Bool(TRUE)]

\* C24: extractExpirationData(expiresAt, leeway) equals the reference
\* evaluator for all inputs, a leeway of 0 and a negative leeway included.
C24_EvaluatorMatchesReference ==
  last.op = "extractExpirationData"
  => last.out = ReferenceEvaluator(last.expiresAt, last.leeway, now)

NotFresh == [isFresh |-> FALSE, isExpiringSoon |-> undefined]
FreshAndDue == [isFresh |-> TRUE, isExpiringSoon |-> Bool(TRUE)]
FreshNotYetDue == [isFresh |-> TRUE, isExpiringSoon |-> Bool(FALSE)]

\* C25 (as the code has it): evaluate(absent, leeway) and
\* evaluate(now-1000, leeway) are (false, absent) for every leeway;
\* evaluate(now+5000, 7200000) and evaluate(now+9000, 7200000) are both
\* (true, true); with the leeway 7200 of the tests, evaluate(now+5000, 7200)
\* is (true, true) and evaluate(now+9000, 7200) is (true, false).
C25_EvaluatorExamples ==
  last.op = "extractExpirationData"
  => (/\ last.expiresAt = undefined => last.out = NotFresh
      /\ last.expiresAt = Num(now - 1000) => last.out = NotFresh
      /\ (last.expiresAt = Num(now + 5000) /\ last.leeway = Num(LongLeewayMs))
         => last.out = FreshAndDue
      /\ (last.expiresAt = Num(now + 9000) /\ last.leeway = Num(LongLeewayMs))
         => last.out = FreshAndDue
      /\ (last.expiresAt = Num(now + 5000) /\ last.leeway = Num(TestLeewayMs))
         => last.out = FreshAndDue
      /\ (last.expiresAt = Num(now + 9000) /\ last.leeway = Num(TestLeewayMs))
         => last.out = FreshNotYetDue)

C25_Witness ==
  /\ last.op = "extractExpirationData"
  /\ last.expiresAt = Num(now + 9000)
  /\ last.leeway = Num(LongLeewayMs)
  /\ last.out.isFresh

\* C25 as stated: evaluate(absent, leeway) = (false, absent);
\* evaluate(now-1000, leeway) = (false, absent);
\* evaluate(now+5000, 7200000) = (true, true);
\* evaluate(now+9000, 7200000) = (true, false).
C25_EvaluatorExamplesAsStated ==
  last.op = "extractExpirationData"
  => (/\ last.expiresAt = undefined => last.out = NotFresh
      /\ last.expiresAt = Num(now - 1000) => last.out = NotFresh
      /\ (last.expiresAt = Num(now + 5000) /\ last.leeway = Num(LongLeewayMs))
         => last.out = FreshAndDue
      /\ (last.expiresAt = Num(now + 9000) /\ last.leeway = Num(LongLeewayMs))
         => last.out = FreshNotYetDue)

(***************************************************************************)
(* extractAuthData on its own: a caller hands it a response whose three    *)
(* fields are of any kind, at the current clock time.  The step records    *)
(* the response and what the function returned or threw.                   *)
(***************************************************************************)
PayloadArguments ==
  {undefined, null, Num(5), Str("x"), Claims(""), Claims("u")}
TokenArguments == {undefined, Num(5), Str(""), Str("t")}
ExpiresInArguments ==
  {undefined, NaN, Str("s"), Num(-5), Num(0), Num(1), Num(TestLeewayMs)}

Extract ==
  \E payload \in PayloadArguments : \E token \in TokenArguments :
  \E expiresIn \in ExpiresInArguments :
    /\ last' = [op |-> "extractAuthData",
                parsed |-> Response(payload, token, expiresIn),
                out |-> extractAuthData(Response(payload, token, expiresIn), now)]
    /\ UNCHANGED <<storage, now, timers, reauthTimeoutId, leewayOption, inflight>>

NextExtract == Extract \/ Tick

SpecExtract == InitPure /\ [][NextExtract]_vars

\* C26: for every expiresIn >= 0 (zero included) and a response with a
\* string accessToken and a claims object with a truthy sub, extractAuthData
\* succeeds with userId = sub, the same accessToken and
\* expiresAt = now + expiresIn * 1000.
C26_ExtractSucceedsFromZero ==
  (/\ last.op = "extractAuthData"
   /\ last.parsed.accessToken.t = "string"
   /\ last.parsed.idTokenPayload.t = "object"
   /\ last.parsed.idTokenPayload.s # ""
   /\ ~IsNaN(last.parsed.expiresIn)
   /\ last.parsed.expiresIn.n >= 0)
  => (/\ last.out.ok
      /\ last.out.userId = Str(last.parsed.idTokenPayload.s)
      /\ last.out.accessToken = last.parsed.accessToken
      /\ last.out.expiresAt = Num(now + last.parsed.expiresIn.n * MsPerSecond))

\* the four validation messages for a response
PayloadMessage(parsed) ==
  "expected idTokenPayload to be an object, got " \o String(parsed.idTokenPayload)
TokenMessage(parsed) ==
  "expected accessToken to be a string, got " \o String(parsed.accessToken)
ExpiresInMessage(parsed) ==
  "expected expiresIn to be a positive integer, got " \o String(parsed.expiresIn)
SubMessage == "idTokenPayload.sub not found in parsed hash"

\* the message of the first check that fails, in the stated order; "" when
\* every check passes
FirstFailingCheck(parsed) ==
  IF parsed.idTokenPayload.t # "object" THEN PayloadMessage(parsed)
  ELSE IF parsed.accessToken.t # "string" THEN TokenMessage(parsed)
  ELSE IF IsNaN(parsed.expiresIn) \/ ~(parsed.expiresIn.n > -1)
  THEN ExpiresInMessage(parsed)
  ELSE IF parsed.idTokenPayload.s = "" THEN SubMessage
  ELSE ""

\* C27: for every response, extractAuthData returns a record or fails with
\* one of the four validation messages, the one of the first failing check
\* in the order payload, accessToken, expiresIn, sub; a null payload may
\* fail with any of the four, but with no other error.
C27_ExtractFailsWithFirstMessage ==
  last.op = "extractAuthData"
  => \/ last.out.ok /\ FirstFailingCheck(last.parsed) = ""
     \/ /\ ~last.out.ok
        /\ last.parsed.idTokenPayload # null
        /\ last.out.error = FirstFailingCheck(last.parsed)
     \/ /\ ~last.out.ok
        /\ last.parsed.idTokenPayload = null
        /\ last.out.error \in {PayloadMessage(last.parsed), TokenMessage(last.parsed),
                               ExpiresInMessage(last.parsed), SubMessage}

(***************************************************************************)
(* The credential store on its own (makeAuthStorage over the string        *)
(* medium), the nonce included: a caller stores a value under a field or   *)
(* removes a field.  The step records what every field retrieved before    *)
(* and what it retrieves after.                                            *)
(***************************************************************************)
NONCE == "auth_nonce"
StoreKeys == Keys \cup {NONCE}

retrieveNonce(st) ==
  LET val == getItem(st, NONCE)
  IN IF Truthy(val) THEN parseInt(val.s) ELSE undefined
storeNonce(st, nonce) == setItem(st, NONCE, nonce)
removeNonce(st) == removeItem(st, NONCE)

StringFields == {"loginLocation", "userId", "accessToken"}
NumericFields == {"expiresAt", "nonce"}
Fields == StringFields \cup NumericFields

KeyOf(f) ==
  CASE f = "loginLocation" -> LOGIN_LOCATION
    [] f = "userId" -> USER_ID
    [] f = "accessToken" -> ACCESS_TOKEN
    [] f = "expiresAt" -> EXPIRES_AT
    [] f = "nonce" -> NONCE

Retrieve(f, st) ==
  CASE f = "loginLocation" -> retrieveLoginLocation(st)
    [] f = "userId" -> retrieveUserId(st)
    [] f = "accessToken" -> retrieveAccessToken(st)
    [] f = "expiresAt" -> retrieveExpiresAt(st)
    [] f = "nonce" -> retrieveNonce(st)

Store(f, st, v) ==
  CASE f = "loginLocation" -> storeLoginLocation(st, v)
    [] f = "userId" -> storeUserId(st, v)
    [] f = "accessToken" -> storeAccessToken(st, v)
    [] f = "expiresAt" -> storeExpiresAt(st, v)
    [] f = "nonce" -> storeNonce(st, v)

Remove(f, st) ==
  CASE f = "loginLocation" -> removeLoginLocation(st)
    [] f = "userId" -> removeUserId(st)
    [] f = "accessToken" -> removeAccessToken(st)
    [] f = "expiresAt" -> removeExpiresAt(st)
    [] f = "nonce" -> removeNonce(st)

\* the values a field's store operation accepts by its type: strings, the
\* empty one included, and numbers, NaN included
StorableValues(f) ==
  IF f \in NumericFields THEN {Num(0), Num(TickMs), NaN}
  ELSE {Str(""), Str("u")}

Retrieved(st) == [f \in Fields |-> Retrieve(f, st)]

InitStore ==
  /\ storage = [k \in StoreKeys |-> null]
  /\ now = StartMs
  /\ timers = {}
  /\ reauthTimeoutId = 0
  /\ leewayOption = undefined
  /\ inflight = <<>>
  /\ last = Idle("init")

StoreField ==
  \E f \in Fields : \E v \in StorableValues(f) :
    /\ storage' = Store(f, storage, v)
    /\ last' = [op |-> "store", field |-> f, value |-> v,
                before |-> Retrieved(storage), after |-> Retrieved(storage')]
    /\ UNCHANGED <<now, timers, reauthTimeoutId, leewayOption, inflight>>

RemoveField ==
  \E f \in Fields :
    /\ storage' = Remove(f, storage)
    /\ last' = [op |-> "remove", field |-> f, value |-> undefined,
                before |-> Retrieved(storage), after |-> Retrieved(storage')]
    /\ UNCHANGED <<now, timers, reauthTimeoutId, leewayOption, inflight>>

NextStore == StoreField \/ RemoveField

SpecStore == InitStore /\ [][NextStore]_vars

\* C28: for each field and every storable value (NaN, which equals nothing,
\* left aside), store followed by retrieve returns exactly the stored value,
\* remove followed by retrieve returns absent, and an operation on one field
\* never changes what another field retrieves.
C28_StoreRoundTrip ==
  /\ (last.op = "store" /\ last.value # NaN)
     => last.after[last.field] = last.value
  /\ last.op = "remove" => last.after[last.field] = undefined
  /\ last.op \in {"store", "remove"}
     => \A g \in Fields \ {last.field} : last.after[g] = last.before[g]

\* C29: a retrieve operation returns absent exactly when the key is unset or
\* its text is unparsable: a string field holding the empty text retrieves
\* the empty string, and a numeric field whose text is not a number
\* retrieves absent, never NaN.
C29_AbsentExactlyWhenUnsetOrUnparsable ==
  /\ \A f \in StringFields :
       IF getItem(storage, KeyOf(f)) = null
       THEN Retrieve(f, storage) = undefined
       ELSE Retrieve(f, storage) = getItem(storage, KeyOf(f))
  /\ \A f \in NumericFields :
       IF \/ getItem(storage, KeyOf(f)) = null
          \/ parseInt(getItem(storage, KeyOf(f)).s) = NaN
       THEN Retrieve(f, storage) = undefined
       ELSE Retrieve(f, storage) = parseInt(getItem(storage, KeyOf(f)).s)

(***************************************************************************)
(* The life of loginLocation and of the stored userId.                     *)
(***************************************************************************)
LoginSucceeded(l) == l.op = "handleLoginSuccess" /\ l.promise = "resolved"
\* the steps that never carry a location: the provider answering a
\* checkSession, logout, an authenticate() without argument (from the host
\* or from the timer), and the clock
WithoutLocation(l) ==
  \/ l.op \in {"checkSession", "logout", "timerFires", "tick"}
  \/ l.op = "authenticate" /\ l.call.loc = undefined

\* C31: after a successful handleLoginSuccess loginLocation is absent from
\* storage; a successful handleLoginSuccess that finds none stored resolves
\* with redirectTo absent; and a silent renewal (success or failure), logout
\* and every other step without a location leave loginLocation as it is and
\* hand none out, so that a further login with no promptLogin or
\* authenticate(location) in between finds none.
C31_LoginLocationConsumedOnce ==
  /\ [](LoginSucceeded(last) => getItem(storage, LOGIN_LOCATION) = null)
  /\ [][(getItem(storage, LOGIN_LOCATION) = null /\ LoginSucceeded(last'))
        => last'.result.redirectTo = undefined]_vars
  /\ [][WithoutLocation(last')
        => (/\ getItem(storage', LOGIN_LOCATION) = getItem(storage, LOGIN_LOCATION)
            /\ last'.result.redirectTo = undefined)]_vars

\* a login succeeds while a timer of an earlier session was pending, and
\* finds no location to hand out
C31_Witness ==
  /\ LoginSucceeded(last)
  /\ last.cancelled = 1
  /\ last.result.redirectTo = undefined
  /\ getItem(storage, LOGIN_LOCATION) = null

RenewalSucceeded(l) == l.op = "checkSession" /\ l.call.renewal = "success"

\* C32: the stored userId is written only by a successful
\* handleLoginSuccess (any other step leaves it or removes it), and a
\* successful silent renewal replaces accessToken and expiresAt by those of
\* the renewed credential and leaves the stored userId as it is, whatever
\* subject the credential carries.
C32_UserIdWrittenOnlyByLogin ==
  /\ [][getItem(storage', USER_ID) \notin {getItem(storage, USER_ID), null}
        => LoginSucceeded(last')]_vars
  /\ [][RenewalSucceeded(last')
        => (/\ getItem(storage', USER_ID) = getItem(storage, USER_ID)
            /\ retrieveAccessToken(storage') = last'.response.accessToken
            /\ retrieveExpiresAt(storage')
                 = Num(now + last'.response.expiresIn.n * MsPerSecond))]_vars

\* a renewal succeeds with a credential of subject u while no user is stored
C32_Witness ==
  /\ RenewalSucceeded(last)
  /\ last.response.idTokenPayload = Claims("u")
  /\ getItem(storage, USER_ID) = null
  /\ retrieveAccessToken(storage) = last.response.accessToken

\* C33: when the renewal-success callback runs, storage holds an accessToken
\* and an expiresAt equal to the ones passed to the callback.
C33_CommittedBeforeSuccessCallback ==
  \A i \in 1..Len(last.successCalls) :
    /\ retrieveAccessToken(last.successCalls[i].storage)
         = last.successCalls[i].result.accessToken
    /\ retrieveExpiresAt(last.successCalls[i].storage)
         = last.successCalls[i].result.expiresAt

\* the callback ran with the credential t1, which storage now holds
C33_Witness ==
  /\ last.op = "checkSession"
  /\ Len(last.successCalls) = 1
  /\ last.successCalls[1].result.accessToken = Str("t1")
  /\ retrieveAccessToken(storage) = Str("t1")

(***************************************************************************)
(* A host that configures the renewal leeway: the same operations as Spec, *)
(* from a storage that holds a session expiring in one tick, with          *)
(* options.reauthenticationLeeway absent, 0, or the length of two ticks.   *)
(***************************************************************************)
ConfiguredLeeways == {undefined, Num(0), Num(2 * TickSeconds)}

InitLeeway ==
  /\ storage = [login_location |-> null, user_id |-> Str("u"),
                access_token |-> Str("t"),
                expires_at |-> Str(ToString(StartMs + TickMs))]
  /\ now = StartMs
  /\ timers = {}
  /\ reauthTimeoutId = 0
  /\ leewayOption \in ConfiguredLeeways
  /\ inflight = <<>>
  /\ last = Idle("init")

SpecLeeway == InitLeeway /\ [][Next]_vars

\* the leeway the options ask for, in milliseconds
ConfiguredLeewayMs ==
  IF leewayOption = undefined THEN DEFAULT_LEEWAY * MsPerSecond
  ELSE leewayOption.n * MsPerSecond

\* C34: for every non-negative integer reauthenticationLeeway of S seconds
\* (0 included) authenticate decides renewal-due by S * 1000 milliseconds,
\* and arms the timer at expiresAt - S * 1000 (at once when that is past);
\* it uses 1200 seconds only when the option is not supplied.
C34_ConfiguredLeewayHonoured ==
  (IsBootstrap(last) /\ last.isFresh)
  => /\ last.isExpiringSoon = Bool(last.expiresAt.n - now < ConfiguredLeewayMs)
     /\ last.armed = 1
        => \E tm \in timers :
             /\ tm.id = reauthTimeoutId
             /\ tm.due = IF last.expiresAt.n - ConfiguredLeewayMs > now
                         THEN last.expiresAt.n - ConfiguredLeewayMs
                         ELSE now

\* the step is the first event after a logout that could bring a session
\* back without a login: a timer firing or the provider answering a
\* checkSession that was in flight
EventAfterLogout(l, m) ==
  l.op = "logout" /\ m.op \in {"timerFires", "checkSession"}

\* C35: after logout no later event other than a successful
\* handleLoginSuccess writes an accessToken or an expiresAt back: the timer
\* firing, or the callback of a checkSession in flight, right after a logout
\* leaves both unset.
C35_LoggedOutStaysLoggedOut ==
  [][EventAfterLogout(last, last')
     => (/\ getItem(storage', ACCESS_TOKEN) = null
         /\ getItem(storage', EXPIRES_AT) = null)]_vars

\* C36: a single call to authenticate invokes authorize at most once, in
\* every storage state.
C36_AuthorizeAtMostOnce ==
  IsBootstrap(last) => Len(last.authorizeCalls) <= 1

\* C37: starting from empty storage, after every operation a stored userId
\* implies a stored accessToken.
C37_UserImpliesToken ==
  getItem(storage, USER_ID) # null => getItem(storage, ACCESS_TOKEN) # null

\* C38: whenever authenticate resolves with an accessToken, the snapshot
\* carries the userId and the expiresAt of the session (the stored ones) as
\* well, and after a
\* successful renewal it equals the record passed to the renewal-success
\* callback.
C38_ResolvedSnapshotComplete ==
  /\ (last.op \in {"authenticate", "timerFires", "checkSession"}
      /\ last.promise = "resolved" /\ last.result.accessToken # undefined)
     => (/\ last.result.userId = retrieveUserId(storage)
         /\ last.result.expiresAt = retrieveExpiresAt(storage))
  /\ (RenewalSucceeded(last) /\ last.promise = "resolved")
     => (Len(last.successCalls) = 1 /\ last.result = last.successCalls[1].result)

(***************************************************************************)
(* A host whose renewal-success callback may throw: the same operations as *)
(* Spec, with the callback of a committed renewal either returning or      *)
(* throwing.                                                               *)
(***************************************************************************)
CheckSessionReturnsToHost ==
  \E i \in 1..Len(inflight) : \E o \in Outcomes : \E hostThrows \in BOOLEAN :
    CheckSessionCallbackWith(hostThrows, i, o[1], o[2])

NextHostThrows ==
  \/ Authenticate
  \/ TimerFires
  \/ CheckSessionReturnsToHost
  \/ HandleLoginSuccess
  \/ PromptLogin
  \/ Logout
  \/ Tick

SpecHostThrows == Init /\ [][NextHostThrows]_vars

\* C39: a silent renewal that the provider answered with a valid credential
\* (and no error) ends with that credential stored and without a call of
\* the renewal-failure callback, whatever happens after the commit.
C39_ValidRenewalEndsStored ==
  (last.op = "checkSession" /\ last.error = "" /\ last.response \in ValidResponses)
  => (/\ retrieveAccessToken(storage) = last.response.accessToken
      /\ retrieveExpiresAt(storage)
           = Num(now + last.response.expiresIn.n * MsPerSecond)
      /\ last.failureCalls = <<>>)

====
